---------------------------- MODULE Spec2Model ----------------------------
(***************************************************************************)
(* The IMP toolchain: the recursive-descent parser (src/lexer.h, lines     *)
(* 220-513) and the stack-based bytecode interpreter (src/interp.cpp).     *)
(*                                                                         *)
(* The interpreter is a state machine over (prog_, pc_, stack_): one       *)
(* action per opcode of the switch in Interp::Run.  The parser is a set of *)
(* mutually recursive operators that thread the lexer position, applied by *)
(* one action per entry point.                                             *)
(***************************************************************************)
EXTENDS Integers, Sequences, FiniteSets, TLC

VARIABLES
    prog_,      \* Interp::prog_  : the Program, a sequence of cells
    pc_,        \* Interp::pc_    : offset of the next cell to read
    stack_,     \* Interp::stack_ : operand stack, top is the last element
    run,        \* where Run() is: "idle" | "running" | "stopped" | "error" | "trap"
    error,      \* what() of the RuntimeError that left Run(), "" if none
    ovf,        \* the overflow predicate evaluated by the last ADD/SUB
    stack0,     \* the operand stack Run() was entered with
    toks,       \* the token source read by the Lexer, END-terminated
    tk_,        \* Lexer::tk_ : index in toks of the current token
    called,     \* the entry point of the Parser that was called, "" if none yet
    parsed      \* what the entry point returned or raised

vars == <<prog_, pc_, stack_, run, error, ovf, stack0, toks, tk_, called, parsed>>
vmVars == <<prog_, pc_, stack_, run, error, ovf, stack0>>
parserVars == <<toks, tk_, called, parsed>>

-----------------------------------------------------------------------------
(* Bounds of the model *)

\* std::int64_t is modelled as a signed IntBits-bit two's complement integer.
IntBits == 8
\* Values below the operands of a single-instruction program.
MaxBase == 2
\* Arguments and callee locals of the functions of the call programs.
MaxArgs == 2
MaxLocals == 1
\* Lengths of the token streams the parser is run on.
MaxToks == 2
MaxBlockToks == 5
MaxParamToks == 4
MaxStmtToks == 3
MaxCalls == 2
MaxIfs == 2
MaxElseToks == 4

-----------------------------------------------------------------------------
(* Values and machine integers *)

Pow2(n) == 2 ^ n
MinInt == -Pow2(IntBits - 1)
MaxInt == Pow2(IntBits - 1) - 1
Int64 == MinInt .. MaxInt

\* Conversion of a mathematical integer to the signed machine integer
\* (uint64_t arithmetic converted back to int64_t).
Wrap(n) == ((n - MinInt) % Pow2(IntBits)) + MinInt

IntV(i) == [Kind |-> "INT", Val |-> i]
AddrV(a) == [Kind |-> "ADDR", Val |-> a]
ProtoV(p) == [Kind |-> "PROTO", Val |-> p]

\* A cell of the Program: an opcode, or an immediate operand.
Op(o) == [op |-> o, v |-> 0]
Imm(n) == [op |-> "imm", v |-> n]

Top(s) == s[Len(s)]
PopN(s, n) == SubSeq(s, 1, Len(s) - n)

\* C++ integer division truncates toward zero; % takes the sign of the dividend.
Abs(n) == IF n < 0 THEN -n ELSE n
TruncDiv(a, b) == IF (a < 0) = (b < 0) THEN Abs(a) \div Abs(b) ELSE -(Abs(a) \div Abs(b))
TruncMod(a, b) == a - b * TruncDiv(a, b)


-----------------------------------------------------------------------------
(* The interpreter: Interp::Run, one action per opcode *)

\* prog_.Read<Opcode>(pc_) at the head of the loop: the cell at pc_ is opcode o.
\* Every Read copies one cell out and advances pc_ past it.
Fetch(o) ==
    /\ run = "running"
    /\ pc_ \in DOMAIN prog_
    /\ prog_[pc_].op = o

\* prog_.Read<T>(pc_) of the k-th immediate operand of the current opcode.
Operand(k) == prog_[pc_ + k].v

\* A RuntimeError leaves Run(): nothing is fetched afterwards.
Throw(msg, stk, pc) ==
    /\ run' = "error"
    /\ error' = msg
    /\ stack_' = stk
    /\ pc_' = pc
    /\ UNCHANGED <<prog_, stack0, toks, tk_, called, parsed>>

\* The loop continues with the next opcode.
Continue(stk, pc) ==
    /\ stack_' = stk
    /\ pc_' = pc
    /\ UNCHANGED <<prog_, run, error, stack0, toks, tk_, called, parsed>>

\* The native callables bound by the runtime library: each pushes exactly one
\* result value.
NativeResults == {IntV(0), IntV(1)}

\* Value::operator bool as used by JUMP_FALSE: only Integer(0) is falsy.
IsFalsy(v) == v.Kind = "INT" /\ v.Val = 0

PUSH_FUNC ==
    /\ Fetch("PUSH_FUNC")
    /\ Continue(Append(stack_, AddrV(Operand(1))), pc_ + 2)
    /\ UNCHANGED ovf

PUSH_PROTO ==
    /\ Fetch("PUSH_PROTO")
    /\ Continue(Append(stack_, ProtoV(Operand(1))), pc_ + 2)
    /\ UNCHANGED ovf

PUSH_INT ==
    /\ Fetch("PUSH_INT")
    /\ Continue(Append(stack_, IntV(Operand(1))), pc_ + 2)
    /\ UNCHANGED ovf

\* PEEK counting its index from the slot below the top.
PEEK_OffByOne ==
    /\ Fetch("PEEK")
    /\ LET idx == Operand(1) IN
        /\ idx + 1 < Len(stack_)
        /\ Continue(Append(stack_, stack_[Len(stack_) - idx - 1]), pc_ + 2)
    /\ UNCHANGED ovf

PEEK ==
    /\ Fetch("PEEK")
    /\ LET idx == Operand(1) IN
        /\ idx < Len(stack_)
        /\ Continue(Append(stack_, stack_[Len(stack_) - idx]), pc_ + 2)
    /\ UNCHANGED ovf

POP ==
    /\ Fetch("POP")
    /\ Len(stack_) >= 1
    /\ Continue(PopN(stack_, 1), pc_ + 1)
    /\ UNCHANGED ovf

\* CALL whose INT case builds the RuntimeError without throwing it.
CALL_NoThrow ==
    /\ Fetch("CALL")
    /\ Len(stack_) >= 1
    /\ LET callee == Top(stack_)
           rest == PopN(stack_, 1)
       IN  CASE callee.Kind = "PROTO" ->
                  \E r \in NativeResults : Continue(Append(rest, r), pc_ + 1)
             [] callee.Kind = "ADDR" ->
                  Continue(Append(rest, AddrV(pc_ + 1)), callee.Val)
             [] callee.Kind = "INT" ->
                  Continue(rest, pc_ + 1)
    /\ UNCHANGED ovf

CALL ==
    /\ Fetch("CALL")
    /\ Len(stack_) >= 1
    /\ LET callee == Top(stack_)
           rest == PopN(stack_, 1)
       IN  CASE callee.Kind = "PROTO" ->
                  \E r \in NativeResults : Continue(Append(rest, r), pc_ + 1)
             [] callee.Kind = "ADDR" ->
                  Continue(Append(rest, AddrV(pc_ + 1)), callee.Val)
             [] callee.Kind = "INT" ->
                  Throw("cannot call integer", rest, pc_ + 1)
    /\ UNCHANGED ovf

\* The machine traps (SIGFPE on a division fault, -ftrapv on signed overflow):
\* the process ends inside the opcode.
Trap(stk, pc) ==
    /\ run' = "trap"
    /\ stack_' = stk
    /\ pc_' = pc
    /\ UNCHANGED <<prog_, error, stack0, toks, tk_, called, parsed>>

\* auto rhs = PopInt(); auto lhs = PopInt();
Rhs == Top(stack_)
Lhs == stack_[Len(stack_) - 1]

\* PopInt() raises on the first popped value that is not an Integer.
PopIntFails ==
    IF Rhs.Kind # "INT"
    THEN Throw("not an integer", PopN(stack_, 1), pc_ + 1)
    ELSE Throw("not an integer", PopN(stack_, 2), pc_ + 1)

BothInt == Rhs.Kind = "INT" /\ Lhs.Kind = "INT"

\* Push(result); continue;
PushResult(res) == Continue(Append(PopN(stack_, 2), IntV(res)), pc_ + 1)

\* The outcome of an int64_t expression whose mathematical value is exact: the
\* value when it is representable; otherwise the behaviour is undefined and the
\* build either wraps or traps.
SignedResult(exact) ==
    IF exact \in Int64
    THEN PushResult(exact)
    ELSE \E outcome \in {"wrap", "trap"} :
            IF outcome = "wrap"
            THEN PushResult(Wrap(exact))
            ELSE Trap(PopN(stack_, 2), pc_ + 1)

\* The outcome of a division whose divisor is zero: undefined behaviour; the
\* build either traps or yields what the hardware divide leaves (fallback).
DivisionFault(fallback) ==
    \E outcome \in {"value", "trap"} :
        IF outcome = "value"
        THEN PushResult(fallback)
        ELSE Trap(PopN(stack_, 2), pc_ + 1)

\* The condition of the if statement of ADD and of SUB.
OverflowTest(lhs, rhs, res) ==
    \/ (rhs < 0 /\ lhs < 0 /\ res > 0)
    \/ (rhs > 0 /\ lhs > 0 /\ res < 0)

\* ADD that throws the RuntimeError its overflow test builds.
ADD_Throws ==
    /\ Fetch("ADD")
    /\ Len(stack_) >= 2
    /\ IF ~BothInt
       THEN PopIntFails /\ UNCHANGED ovf
       ELSE LET rhs == Rhs.Val
                lhs == Lhs.Val
                res == Wrap(rhs + lhs)
            IN  /\ ovf' = OverflowTest(lhs, rhs, res)
                /\ IF OverflowTest(lhs, rhs, res)
                   THEN Throw("overflow in sum", PopN(stack_, 2), pc_ + 1)
                   ELSE PushResult(res)

ADD ==
    /\ Fetch("ADD")
    /\ Len(stack_) >= 2
    /\ IF ~BothInt
       THEN PopIntFails /\ UNCHANGED ovf
       ELSE LET rhs == Rhs.Val
                lhs == Lhs.Val
                res == Wrap(rhs + lhs)
            IN  /\ ovf' = OverflowTest(lhs, rhs, res)
                /\ PushResult(res)

\* SUB computing rhs - lhs.
SUB_Swapped ==
    /\ Fetch("SUB")
    /\ Len(stack_) >= 2
    /\ IF ~BothInt
       THEN PopIntFails /\ UNCHANGED ovf
       ELSE LET rhs == Rhs.Val
                lhs == Lhs.Val
            IN  /\ ovf' = OverflowTest(lhs, rhs, Wrap(rhs - lhs))
                /\ SignedResult(rhs - lhs)

SUB ==
    /\ Fetch("SUB")
    /\ Len(stack_) >= 2
    /\ IF ~BothInt
       THEN PopIntFails /\ UNCHANGED ovf
       ELSE LET rhs == Rhs.Val
                lhs == Lhs.Val
            IN  /\ ovf' = OverflowTest(lhs, rhs, Wrap(lhs - rhs))
                /\ SignedResult(lhs - rhs)

MUL ==
    /\ Fetch("MUL")
    /\ Len(stack_) >= 2
    /\ UNCHANGED ovf
    /\ IF ~BothInt
       THEN PopIntFails
       ELSE SignedResult(Lhs.Val * Rhs.Val)

DIV ==
    /\ Fetch("DIV")
    /\ Len(stack_) >= 2
    /\ UNCHANGED ovf
    /\ IF ~BothInt
       THEN PopIntFails
       ELSE IF Rhs.Val = 0
            THEN DivisionFault(0)
            ELSE SignedResult(TruncDiv(Lhs.Val, Rhs.Val))

MOD ==
    /\ Fetch("MOD")
    /\ Len(stack_) >= 2
    /\ UNCHANGED ovf
    /\ IF ~BothInt
       THEN PopIntFails
       ELSE IF Rhs.Val = 0
            THEN DivisionFault(Lhs.Val)
            ELSE IF TruncDiv(Lhs.Val, Rhs.Val) \in Int64
                 THEN PushResult(TruncMod(Lhs.Val, Rhs.Val))
                 ELSE DivisionFault(0)

\* int64_t result = (lhs <rel> rhs) ? 1 : 0;
Compare(holds) ==
    /\ Len(stack_) >= 2
    /\ UNCHANGED ovf
    /\ IF ~BothInt
       THEN PopIntFails
       ELSE PushResult(IF holds THEN 1 ELSE 0)

DEQ == Fetch("DEQ") /\ Compare(Lhs.Val = Rhs.Val)

NEQ == Fetch("NEQ") /\ Compare(Lhs.Val # Rhs.Val)

SM == Fetch("SM") /\ Compare(Lhs.Val < Rhs.Val)

SMEQ == Fetch("SMEQ") /\ Compare(Lhs.Val <= Rhs.Val)

GR == Fetch("GR") /\ Compare(Lhs.Val > Rhs.Val)

GREQ == Fetch("GREQ") /\ Compare(Lhs.Val >= Rhs.Val)

\* RET that leaves the call arguments on the stack.
RET_KeepArgs ==
    /\ Fetch("RET")
    /\ UNCHANGED ovf
    /\ LET depth == Operand(1)
           nargs == Operand(2)
       IN  /\ Len(stack_) >= depth + nargs + 2
           /\ LET v == Top(stack_)
                  afterLocals == PopN(stack_, 1 + depth)
                  ret == Top(afterLocals)
                  afterAddr == PopN(afterLocals, 1)
              IN  IF ret.Kind # "ADDR"
                  THEN Throw("not an address", afterAddr, pc_ + 3)
                  ELSE Continue(Append(afterAddr, v), ret.Val)

\* RET that does not push the return value back.
RET_DropValue ==
    /\ Fetch("RET")
    /\ UNCHANGED ovf
    /\ LET depth == Operand(1)
           nargs == Operand(2)
       IN  /\ Len(stack_) >= depth + nargs + 2
           /\ LET afterLocals == PopN(stack_, 1 + depth)
                  ret == Top(afterLocals)
                  afterAddr == PopN(afterLocals, 1)
              IN  IF ret.Kind # "ADDR"
                  THEN Throw("not an address", afterAddr, pc_ + 3)
                  ELSE Continue(PopN(afterAddr, nargs), ret.Val)

\* RET that pops the return address before it discards the callee values.
RET_AddrFirst ==
    /\ Fetch("RET")
    /\ UNCHANGED ovf
    /\ LET depth == Operand(1)
           nargs == Operand(2)
       IN  /\ Len(stack_) >= depth + nargs + 2
           /\ LET v == Top(stack_)
                  ret == Top(PopN(stack_, 1))
                  afterAddr == PopN(stack_, 2 + depth)
              IN  IF ret.Kind # "ADDR"
                  THEN Throw("not an address", PopN(stack_, 2), pc_ + 3)
                  ELSE Continue(Append(PopN(afterAddr, nargs), v), ret.Val)

RET ==
    /\ Fetch("RET")
    /\ UNCHANGED ovf
    /\ LET depth == Operand(1)
           nargs == Operand(2)
       IN  /\ Len(stack_) >= depth + nargs + 2
           /\ LET v == Top(stack_)
                  afterLocals == PopN(stack_, 1 + depth)
                  ret == Top(afterLocals)
                  afterAddr == PopN(afterLocals, 1)
              IN  IF ret.Kind # "ADDR"
                  THEN Throw("not an address", afterAddr, pc_ + 3)
                  ELSE Continue(Append(PopN(afterAddr, nargs), v), ret.Val)

\* JUMP_FALSE that jumps on a truthy condition.
JUMP_FALSE_Inverted ==
    /\ Fetch("JUMP_FALSE")
    /\ UNCHANGED ovf
    /\ Len(stack_) >= 1
    /\ LET cond == Top(stack_)
           addr == Operand(1)
       IN  Continue(PopN(stack_, 1), IF IsFalsy(cond) THEN pc_ + 2 ELSE addr)

JUMP_FALSE ==
    /\ Fetch("JUMP_FALSE")
    /\ UNCHANGED ovf
    /\ Len(stack_) >= 1
    /\ LET cond == Top(stack_)
           addr == Operand(1)
       IN  Continue(PopN(stack_, 1), IF IsFalsy(cond) THEN addr ELSE pc_ + 2)

\* JUMP that reads its operand and goes on with the next opcode.
JUMP_FallThrough ==
    /\ Fetch("JUMP")
    /\ UNCHANGED ovf
    /\ Continue(stack_, pc_ + 2)

JUMP ==
    /\ Fetch("JUMP")
    /\ UNCHANGED ovf
    /\ Continue(stack_, Operand(1))

STOP ==
    /\ Fetch("STOP")
    /\ run' = "stopped"
    /\ pc_' = pc_ + 1
    /\ UNCHANGED <<prog_, stack_, error, ovf, stack0, toks, tk_, called, parsed>>

Step ==
    \/ PUSH_FUNC \/ PUSH_PROTO \/ PUSH_INT \/ PEEK \/ POP \/ CALL
    \/ ADD \/ SUB \/ MUL \/ DIV \/ MOD
    \/ DEQ \/ NEQ \/ SM \/ SMEQ \/ GR \/ GREQ
    \/ RET \/ JUMP_FALSE \/ JUMP \/ STOP

-----------------------------------------------------------------------------
(* Tokens, the lexer's lookahead and the AST *)

\* A Token: its kind and the payload of its union (str for IDENT and STRING,
\* int for INT).
Tok(kind) == [kind |-> kind, str |-> "", int |-> 0]
IdentTok(name) == [kind |-> "IDENT", str |-> name, int |-> 0]
IntTok(n) == [kind |-> "INT", str |-> "", int |-> n]
StringTok(text) == [kind |-> "STRING", str |-> text, int |-> 0]
End == Tok("END")

\* Lexer::Next() on the token source ts with current token p: the next token
\* becomes current; at END the lexer stays at END.
LexNext(ts, p) == IF p < Len(ts) THEN p + 1 ELSE p

RefExpr(name) == [k |-> "RefExpr", name |-> name]
IntExpr(val) == [k |-> "IntExpr", val |-> val]
CallExpr(callee, args) == [k |-> "CallExpr", callee |-> callee, args |-> args]
BinaryExpr(kind, lhs, rhs) == [k |-> "BinaryExpr", op |-> kind, lhs |-> lhs, rhs |-> rhs]
ExprStmt(expr) == [k |-> "ExprStmt", expr |-> expr]
ReturnStmt(expr) == [k |-> "ReturnStmt", expr |-> expr]
WhileStmt(cond, stmt) == [k |-> "WhileStmt", cond |-> cond, stmt |-> stmt]
NullStmt == [k |-> "nullptr"]
IfStmt(cond, stmt, elseStmt) == [k |-> "IfStmt", cond |-> cond, stmt |-> stmt, elseStmt |-> elseStmt]
BlockStmt(body) == [k |-> "BlockStmt", body |-> body]
FuncDecl(name, args, type, body) ==
    [k |-> "FuncDecl", name |-> name, args |-> args, type |-> type, body |-> body]
ProtoDecl(name, args, type, primitive) ==
    [k |-> "ProtoDecl", name |-> name, args |-> args, type |-> type, primitive |-> primitive]
Module(body) == [k |-> "Module", body |-> body]

-----------------------------------------------------------------------------
(* The parser.  Every production takes the token source ts and the index p *)
(* of the current token, and yields either Ok(node, position of the        *)
(* current token on return) or the exception that left it.                 *)

Ok(node, p) == [st |-> "ok", node |-> node, pos |-> p]

\* No entry point of the parser has been called; no token source.
NotParsed == [st |-> "none"]
NoTokens == <<>>

\* Parser::Error as raised by Check and ParseTermExpr: a ParserError with the
\* location of token p and the message "unexpected <token>, expecting <what>".
Error(ts, p, what) ==
    [st |-> "error", loc |-> p, unexpected |-> ts[p].kind, expecting |-> what, pos |-> p]

\* Token::GetIdent() on a token that is not an IDENT. A build with assertions
\* aborts on the assert. With NDEBUG the read through the string pointer of
\* the payload is undefined: the build faults on the pointer, or reads some
\* string and goes on.
Builds == {"assert", "fault", "garbage"}

BadPayload(build, p) ==
    [st |-> IF build = "assert" THEN "assert" ELSE "fault", loc |-> p, pos |-> p]

\* The string GetIdent() hands back for the token tk.
GetIdent(build, tk) == IF tk.kind = "IDENT" THEN tk.str ELSE "?"

\* What a callee raised leaves the caller as well; what it returned is
\* handed to the rest of the caller's body.
Bind(r, Rest(_)) == IF r.st # "ok" THEN r ELSE Rest(r)

\* Parser::Check(kind) with current token p.
Check(ts, p, kind) ==
    IF kind # ts[p].kind THEN Error(ts, p, kind) ELSE Ok(ts[p], p)

\* Parser::Expect(kind): advance, then Check.
Expect(ts, p, kind) == Check(ts, LexNext(ts, p), kind)

MulDivKind(tk) ==
    IF tk.kind = "MULTIPLY" THEN "MUL" ELSE IF tk.kind = "DIVIDE" THEN "DIV" ELSE "MOD"

AddSubKind(tk) == IF tk.kind = "PLUS" THEN "ADD" ELSE "SUB"

\* CompKind with the strict and the non-strict kinds exchanged.
CompKind_Swapped(tk) ==
    IF tk.kind = "DOUBLE_EQUAL" THEN "DEQ"
    ELSE IF tk.kind = "NOT_EQUAL" THEN "NEQ"
    ELSE IF tk.kind = "SMALLER" THEN "SMEQ"
    ELSE IF tk.kind = "SMALLER_OR_EQUAL" THEN "SM"
    ELSE IF tk.kind = "GREATER" THEN "GREQ"
    ELSE "GR"

CompKind(tk) ==
    IF tk.kind = "DOUBLE_EQUAL" THEN "DEQ"
    ELSE IF tk.kind = "NOT_EQUAL" THEN "NEQ"
    ELSE IF tk.kind = "SMALLER" THEN "SM"
    ELSE IF tk.kind = "SMALLER_OR_EQUAL" THEN "SMEQ"
    ELSE IF tk.kind = "GREATER" THEN "GR"
    ELSE "GREQ"

MulDivTokens == {"MULTIPLY", "DIVIDE", "MODULO"}
AddSubTokens == {"PLUS", "MINUS"}
CompTokens ==
    {"DOUBLE_EQUAL", "NOT_EQUAL", "SMALLER", "SMALLER_OR_EQUAL", "GREATER", "GREATER_OR_EQUAL"}

RECURSIVE ParseCompExpr(_, _)
RECURSIVE ParseAddSubExpr(_, _)
RECURSIVE ParseStmt(_, _)
RECURSIVE ParseBlockStmt(_, _)

\* Parser::ParseExpr: the loosest expression level.
ParseExpr(ts, p) == ParseCompExpr(ts, p)

ParseTermExpr(ts, p) ==
    CASE ts[p].kind = "IDENT" -> Ok(RefExpr(ts[p].str), LexNext(ts, p))
      [] ts[p].kind = "INT" -> Ok(IntExpr(ts[p].int), LexNext(ts, p))
      [] ts[p].kind = "LPAREN" ->
            Bind(ParseExpr(ts, LexNext(ts, p)), LAMBDA expr :
            Bind(Check(ts, expr.pos, "RPAREN"), LAMBDA rp :
            Ok(expr.node, LexNext(ts, rp.pos))))
      [] OTHER -> Error(ts, p, "term")

\* The inner loop of ParseCallExpr, entered with the current token p being
\* the LPAREN or the COMMA before the next argument:
\*   while (!lexer_.Next().Is(RPAREN)) { args.push_back(ParseExpr());
\*                                       if (!Current().Is(COMMA)) break; }
RECURSIVE CallArgs(_, _, _)
\* The inner loop of ParseCallExpr requiring an argument after each COMMA.
CallArgs_NoTrailing(ts, args, p) ==
    IF args = <<>> /\ ts[LexNext(ts, p)].kind = "RPAREN" THEN Ok(args, LexNext(ts, p))
    ELSE Bind(ParseExpr(ts, LexNext(ts, p)), LAMBDA expr :
         IF ts[expr.pos].kind # "COMMA"
         THEN Ok(Append(args, expr.node), expr.pos)
         ELSE CallArgs(ts, Append(args, expr.node), expr.pos))

CallArgs(ts, args, p) ==
    IF ts[LexNext(ts, p)].kind = "RPAREN" THEN Ok(args, LexNext(ts, p))
    ELSE Bind(ParseExpr(ts, LexNext(ts, p)), LAMBDA expr :
         IF ts[expr.pos].kind # "COMMA"
         THEN Ok(Append(args, expr.node), expr.pos)
         ELSE CallArgs(ts, Append(args, expr.node), expr.pos))

\* The outer loop of ParseCallExpr: while (Current().Is(LPAREN)) { .. }
RECURSIVE CallChain(_, _, _)
\* The outer loop of ParseCallExpr as an if: one argument list at most.
CallChain_Single(ts, callee, p) ==
    IF ts[p].kind # "LPAREN" THEN Ok(callee, p)
    ELSE Bind(CallArgs(ts, <<>>, p), LAMBDA args :
         Bind(Check(ts, args.pos, "RPAREN"), LAMBDA rp :
         Ok(CallExpr(callee, args.node), LexNext(ts, rp.pos))))

CallChain(ts, callee, p) ==
    IF ts[p].kind # "LPAREN" THEN Ok(callee, p)
    ELSE Bind(CallArgs(ts, <<>>, p), LAMBDA args :
         Bind(Check(ts, args.pos, "RPAREN"), LAMBDA rp :
         CallChain(ts, CallExpr(callee, args.node), LexNext(ts, rp.pos))))

ParseCallExpr(ts, p) ==
    Bind(ParseTermExpr(ts, p), LAMBDA callee : CallChain(ts, callee.node, callee.pos))

\* The loop of ParseMulDivExpr with the tree built so far.
RECURSIVE MulDivLoop(_, _, _)
MulDivLoop(ts, term, p) ==
    IF ts[p].kind \notin MulDivTokens THEN Ok(term, p)
    ELSE Bind(ParseCallExpr(ts, LexNext(ts, p)), LAMBDA rhs :
         MulDivLoop(ts, BinaryExpr(MulDivKind(ts[p]), term, rhs.node), rhs.pos))

\* ParseMulDivExpr without its loop: no level of its own for * / %.
ParseMulDivExpr_NoLoop(ts, p) == ParseCallExpr(ts, p)

ParseMulDivExpr(ts, p) ==
    Bind(ParseCallExpr(ts, p), LAMBDA term : MulDivLoop(ts, term.node, term.pos))

\* The loop of ParseAddSubExpr with the tree built so far.
RECURSIVE AddSubLoop(_, _, _)
\* The loop of ParseAddSubExpr parsing the whole rest as the right operand.
AddSubLoop_RightAssoc(ts, term, p) ==
    IF ts[p].kind \notin AddSubTokens THEN Ok(term, p)
    ELSE Bind(ParseAddSubExpr(ts, LexNext(ts, p)), LAMBDA rhs :
         Ok(BinaryExpr(AddSubKind(ts[p]), term, rhs.node), rhs.pos))

AddSubLoop(ts, term, p) ==
    IF ts[p].kind \notin AddSubTokens THEN Ok(term, p)
    ELSE Bind(ParseMulDivExpr(ts, LexNext(ts, p)), LAMBDA rhs :
         AddSubLoop(ts, BinaryExpr(AddSubKind(ts[p]), term, rhs.node), rhs.pos))

ParseAddSubExpr(ts, p) ==
    Bind(ParseMulDivExpr(ts, p), LAMBDA term : AddSubLoop(ts, term.node, term.pos))

\* The loop of ParseCompExpr with the tree built so far.
RECURSIVE CompLoop(_, _, _)
CompLoop(ts, term, p) ==
    IF ts[p].kind \notin CompTokens THEN Ok(term, p)
    ELSE Bind(ParseAddSubExpr(ts, LexNext(ts, p)), LAMBDA rhs :
         CompLoop(ts, BinaryExpr(CompKind(ts[p]), term, rhs.node), rhs.pos))

ParseCompExpr(ts, p) ==
    Bind(ParseAddSubExpr(ts, p), LAMBDA term : CompLoop(ts, term.node, term.pos))

ParseReturnStmt(ts, p) ==
    Bind(Check(ts, p, "RETURN"), LAMBDA kw :
    Bind(ParseExpr(ts, LexNext(ts, p)), LAMBDA expr :
    Ok(ReturnStmt(expr.node), expr.pos)))

\* Check(keyword); Expect(LPAREN); Next(); cond = ParseExpr(); Check(RPAREN);
\* Next(); stmt = ParseStmt();  -- the common head of ParseWhileStmt and
\* ParseIfStmt.
CondAndStmt(ts, p, keyword) ==
    Bind(Check(ts, p, keyword), LAMBDA kw :
    Bind(Expect(ts, p, "LPAREN"), LAMBDA lp :
    Bind(ParseExpr(ts, LexNext(ts, lp.pos)), LAMBDA cond :
    Bind(Check(ts, cond.pos, "RPAREN"), LAMBDA rp :
    Bind(ParseStmt(ts, LexNext(ts, rp.pos)), LAMBDA stmt :
    Ok([cond |-> cond.node, stmt |-> stmt.node], stmt.pos))))))

ParseWhileStmt(ts, p) ==
    Bind(CondAndStmt(ts, p, "WHILE"), LAMBDA h :
    Ok(WhileStmt(h.node.cond, h.node.stmt), h.pos))

\* ParseIfStmt that also takes an else branch across a separator.
ParseIfStmt_AcrossSemi(ts, p) ==
    Bind(CondAndStmt(ts, p, "IF"), LAMBDA h :
    IF ts[h.pos].kind = "ELSE"
    THEN Bind(ParseStmt(ts, LexNext(ts, h.pos)), LAMBDA elseStmt :
         Ok(IfStmt(h.node.cond, h.node.stmt, elseStmt.node), elseStmt.pos))
    ELSE IF ts[h.pos].kind = "SEMI" /\ ts[LexNext(ts, h.pos)].kind = "ELSE"
    THEN Bind(ParseStmt(ts, LexNext(ts, LexNext(ts, h.pos))), LAMBDA elseStmt :
         Ok(IfStmt(h.node.cond, h.node.stmt, elseStmt.node), elseStmt.pos))
    ELSE Ok(IfStmt(h.node.cond, h.node.stmt, NullStmt), h.pos))

ParseIfStmt(ts, p) ==
    Bind(CondAndStmt(ts, p, "IF"), LAMBDA h :
    IF ts[h.pos].kind = "ELSE"
    THEN Bind(ParseStmt(ts, LexNext(ts, h.pos)), LAMBDA elseStmt :
         Ok(IfStmt(h.node.cond, h.node.stmt, elseStmt.node), elseStmt.pos))
    ELSE Ok(IfStmt(h.node.cond, h.node.stmt, NullStmt), h.pos))

ParseStmt(ts, p) ==
    CASE ts[p].kind = "RETURN" -> ParseReturnStmt(ts, p)
      [] ts[p].kind = "WHILE" -> ParseWhileStmt(ts, p)
      [] ts[p].kind = "LBRACE" -> ParseBlockStmt(ts, p)
      [] ts[p].kind = "IF" -> ParseIfStmt(ts, p)
      [] OTHER -> Bind(ParseExpr(ts, p), LAMBDA expr : Ok(ExprStmt(expr.node), expr.pos))

\* The loop of ParseBlockStmt, entered with the current token p being the
\* LBRACE or the SEMI before the next statement:
\*   while (!lexer_.Next().Is(RBRACE)) { body.push_back(ParseStmt());
\*                                       if (!Current().Is(SEMI)) break; }
RECURSIVE BlockBody(_, _, _)
BlockBody(ts, body, p) ==
    IF ts[LexNext(ts, p)].kind = "RBRACE" THEN Ok(body, LexNext(ts, p))
    ELSE Bind(ParseStmt(ts, LexNext(ts, p)), LAMBDA stmt :
         IF ts[stmt.pos].kind # "SEMI"
         THEN Ok(Append(body, stmt.node), stmt.pos)
         ELSE BlockBody(ts, Append(body, stmt.node), stmt.pos))

\* ParseBlockStmt without the Check(RBRACE) after the loop.
ParseBlockStmt_NoCheck(ts, p) ==
    Bind(Check(ts, p, "LBRACE"), LAMBDA lb :
    Bind(BlockBody(ts, <<>>, p), LAMBDA body :
    Ok(BlockStmt(body.node), LexNext(ts, body.pos))))

\* ParseBlockStmt without the lexer_.Next() after the closing brace.
ParseBlockStmt_NoNext(ts, p) ==
    Bind(Check(ts, p, "LBRACE"), LAMBDA lb :
    Bind(BlockBody(ts, <<>>, p), LAMBDA body :
    Bind(Check(ts, body.pos, "RBRACE"), LAMBDA rb :
    Ok(BlockStmt(body.node), rb.pos))))

ParseBlockStmt(ts, p) ==
    Bind(Check(ts, p, "LBRACE"), LAMBDA lb :
    Bind(BlockBody(ts, <<>>, p), LAMBDA body :
    Bind(Check(ts, body.pos, "RBRACE"), LAMBDA rb :
    Ok(BlockStmt(body.node), LexNext(ts, rb.pos)))))

\* The parameter loop of ParseModule, entered with the current token p being
\* the LPAREN or the COMMA before the next parameter:
\*   while (!lexer_.Next().Is(RPAREN)) { arg = Current().GetIdent();
\*     Expect(COLON); type = Expect(IDENT).GetIdent(); args.emplace_back(..);
\*     if (!lexer_.Next().Is(COMMA)) break; }
RECURSIVE Params(_, _, _, _)
Params(ts, build, args, p) ==
    IF ts[LexNext(ts, p)].kind = "RPAREN" THEN Ok(args, LexNext(ts, p))
    ELSE IF ts[LexNext(ts, p)].kind # "IDENT" /\ build # "garbage"
         THEN BadPayload(build, LexNext(ts, p))
    ELSE Bind(Expect(ts, LexNext(ts, p), "COLON"), LAMBDA colon :
         Bind(Expect(ts, colon.pos, "IDENT"), LAMBDA type :
         IF ts[LexNext(ts, type.pos)].kind # "COMMA"
         THEN Ok(Append(args, <<GetIdent(build, ts[LexNext(ts, p)]), type.node.str>>),
                 LexNext(ts, type.pos))
         ELSE Params(ts, build,
                     Append(args, <<GetIdent(build, ts[LexNext(ts, p)]), type.node.str>>),
                     LexNext(ts, type.pos))))

\* The FUNC branch of ParseModule, with the current token p being FUNC.
ParseFunc(ts, build, p) ==
    Bind(Expect(ts, p, "IDENT"), LAMBDA name :
    Bind(Expect(ts, name.pos, "LPAREN"), LAMBDA lp :
    Bind(Params(ts, build, <<>>, lp.pos), LAMBDA args :
    Bind(Check(ts, args.pos, "RPAREN"), LAMBDA rp :
    Bind(Expect(ts, rp.pos, "COLON"), LAMBDA colon :
    Bind(Expect(ts, colon.pos, "IDENT"), LAMBDA type :
    IF ts[LexNext(ts, type.pos)].kind = "EQUAL"
    THEN Bind(Expect(ts, LexNext(ts, type.pos), "STRING"), LAMBDA primitive :
         Ok(ProtoDecl(name.node.str, args.node, type.node.str, primitive.node.str),
            LexNext(ts, primitive.pos)))
    ELSE Bind(ParseBlockStmt(ts, LexNext(ts, type.pos)), LAMBDA block :
         Ok(FuncDecl(name.node.str, args.node, type.node.str, block.node),
            block.pos))))))))

\* The loop of ParseModule: while (auto tk = Current()) { .. }
RECURSIVE TopLevel(_, _, _, _)
\* The loop of ParseModule ending at a stray separator as it does at END.
TopLevel_StopsAtSemi(ts, build, body, p) ==
    IF ts[p].kind \in {"END", "SEMI"} THEN Ok(Module(body), p)
    ELSE Bind(IF ts[p].kind = "FUNC" THEN ParseFunc(ts, build, p) ELSE ParseStmt(ts, p),
              LAMBDA item : TopLevel(ts, build, Append(body, item.node), item.pos))

TopLevel(ts, build, body, p) ==
    IF ts[p].kind = "END" THEN Ok(Module(body), p)
    ELSE Bind(IF ts[p].kind = "FUNC" THEN ParseFunc(ts, build, p) ELSE ParseStmt(ts, p),
              LAMBDA item : TopLevel(ts, build, Append(body, item.node), item.pos))

ParseModule(ts, build, p) == TopLevel(ts, build, <<>>, p)

-----------------------------------------------------------------------------
(* The token sources the parser is run on *)

TokenKinds ==
    {"FUNC", "RETURN", "WHILE", "IF", "ELSE",
     "LPAREN", "RPAREN", "LBRACE", "RBRACE", "COLON", "SEMI", "EQUAL", "COMMA",
     "PLUS", "MINUS", "MULTIPLY", "DIVIDE", "MODULO",
     "DOUBLE_EQUAL", "NOT_EQUAL", "GREATER", "GREATER_OR_EQUAL", "SMALLER", "SMALLER_OR_EQUAL",
     "INT", "STRING", "IDENT", "END"}

\* One token of every kind but END.
AnyToken ==
    {Tok(kind) : kind \in TokenKinds \ {"INT", "STRING", "IDENT", "END"}}
    \cup {IntTok(1), StringTok("s"), IdentTok("a")}

Seqs(S, n) == UNION {[1 .. m -> S] : m \in 0 .. n}

\* Every token stream of at most MaxToks tokens.
ShortInputs == {s \o <<End>> : s \in Seqs(AnyToken, MaxToks)}

\* t1 <op1> t2 <op2> t3 for all terms and all binary operators.
Terms == {IdentTok("a"), IntTok(1), IntTok(2), IntTok(3), IntTok(8)}
OpTokens == {Tok(kind) : kind \in MulDivTokens \cup AddSubTokens \cup CompTokens}
ExprInputs ==
    {<<t1, o1, t2, o2, t3, End>> : t1 \in Terms, o1 \in OpTokens, t2 \in Terms,
                                   o2 \in OpTokens, t3 \in Terms}

\* { followed by at most MaxBlockToks tokens of a block body.
BlockTokens == {IdentTok("a"), IdentTok("b"), IdentTok("c"), Tok("SEMI"), Tok("RBRACE")}
BlockInputs == {<<Tok("LBRACE")>> \o s \o <<End>> : s \in Seqs(BlockTokens, MaxBlockToks)}

\* func f ( followed by at most MaxParamToks tokens of a parameter list, then
\* nothing, a body or a primitive binding.
ParamTokens == {IdentTok("a"), IntTok(1), Tok("COLON"), Tok("COMMA"), Tok("RPAREN")}
FuncTails ==
    {<<>>,
     <<Tok("COLON"), IdentTok("int"), Tok("LBRACE"), Tok("RBRACE")>>,
     <<Tok("COLON"), IdentTok("int"), Tok("EQUAL"), StringTok("s")>>}
FuncInputs ==
    {<<Tok("FUNC"), IdentTok("f"), Tok("LPAREN")>> \o s \o t \o <<End>> :
        s \in Seqs(ParamTokens, MaxParamToks), t \in FuncTails}

\* if ( a ), while ( a ), return or a, followed by at most MaxStmtToks
\* tokens.
StmtHeads ==
    {<<Tok("IF"), Tok("LPAREN"), IdentTok("a"), Tok("RPAREN")>>,
     <<Tok("WHILE"), Tok("LPAREN"), IdentTok("a"), Tok("RPAREN")>>,
     <<Tok("RETURN")>>,
     <<IdentTok("a")>>}
StmtTokens ==
    {IdentTok("b"), IntTok(1), Tok("ELSE"), Tok("SEMI"), Tok("LBRACE"), Tok("RBRACE"),
     Tok("PLUS")}
StmtInputs == {h \o s \o <<End>> : h \in StmtHeads, s \in Seqs(StmtTokens, MaxStmtToks)}

\* The names of a separated list, and the list written with its separators
\* and, when trailing holds, one more separator after the last element.
NameLists == {<<>>, <<"a">>, <<"b">>, <<"b", "c">>, <<"a", "b", "c">>}

RECURSIVE Separate(_, _)
Separate(elems, sep) ==
    IF Len(elems) = 0 THEN <<>>
    ELSE IF Len(elems) = 1 THEN elems[1]
    ELSE elems[1] \o <<sep>> \o Separate(Tail(elems), sep)

Written(elems, sep, trailing) ==
    Separate(elems, sep) \o (IF trailing THEN <<sep>> ELSE <<>>)

\* ( x , y ) or ( x , y , )
ArgList(l) ==
    <<Tok("LPAREN")>>
    \o Written([i \in 1 .. Len(l.names) |-> <<IdentTok(l.names[i])>>], Tok("COMMA"), l.trailing)
    \o <<Tok("RPAREN")>>

Lists == [names : NameLists, trailing : BOOLEAN]

RECURSIVE ArgLists_(_)
ArgLists_(chain) ==
    IF chain = <<>> THEN <<>> ELSE ArgList(Head(chain)) \o ArgLists_(Tail(chain))

\* f followed by at most MaxCalls argument lists, alone or times g ( b ).
Chains == Seqs(Lists, MaxCalls)
TimesCall == <<Tok("MULTIPLY"), IdentTok("g"), Tok("LPAREN"), IdentTok("b"), Tok("RPAREN")>>
CallInput(chain, times) ==
    <<IdentTok("f")>> \o ArgLists_(chain) \o (IF times THEN TimesCall ELSE <<>>) \o <<End>>
CallInputs == {CallInput(chain, times) : chain \in Chains, times \in BOOLEAN}

\* func f ( x : int , y : int ) or with a trailing comma, then a tail.
ParamList(l) ==
    Written([i \in 1 .. Len(l.names) |->
                <<IdentTok(l.names[i]), Tok("COLON"), IdentTok("int")>>],
            Tok("COMMA"), l.trailing)
FuncInput(l, tail) ==
    <<Tok("FUNC"), IdentTok("f"), Tok("LPAREN")>> \o ParamList(l) \o <<Tok("RPAREN")>>
    \o tail \o <<End>>
ListedFuncInputs == {FuncInput(l, tail) : l \in Lists, tail \in FuncTails}

\* if ( a ) if ( b ) .. x: k nested ifs with the then-statement x of the
\* innermost.
CondNames == <<"a", "b", "c", "d">>

RECURSIVE IfHeads(_, _)
IfHeads(i, k) ==
    IF i > k THEN <<>>
    ELSE <<Tok("IF"), Tok("LPAREN"), IdentTok(CondNames[i]), Tok("RPAREN")>> \o IfHeads(i + 1, k)

NestedIfs(k) == IfHeads(1, k) \o <<IdentTok("x")>>

\* Nested ifs, alone or after an opening brace, followed by at most
\* MaxElseToks tokens.
ElseTokens == {Tok("ELSE"), IdentTok("y"), Tok("SEMI"), Tok("RBRACE")}
IfInputs ==
    {open \o NestedIfs(k) \o s \o <<End>> :
        open \in {<<>>, <<Tok("LBRACE")>>}, k \in 1 .. MaxIfs,
        s \in Seqs(ElseTokens, MaxElseToks)}

Inputs ==
    ShortInputs \cup ExprInputs \cup BlockInputs \cup FuncInputs \cup StmtInputs
    \cup CallInputs \cup ListedFuncInputs \cup IfInputs

NoProgram == <<>>

\* Lexer(name) reads the first token; Parser(lexer) holds the lexer.
InitParser ==
    /\ toks \in Inputs
    /\ tk_ = 1
    /\ called = ""
    /\ parsed = NotParsed
    /\ prog_ = NoProgram
    /\ pc_ = 1
    /\ stack_ = <<>>
    /\ stack0 = <<>>
    /\ run = "idle"
    /\ error = ""
    /\ ovf = FALSE

\* The Parser is idle on a fresh lexer: an entry point may be called.
Fresh == run = "idle" /\ called = ""

\* The entry point returned or raised r: the lexer is left at r.pos.
Return(entry, r) ==
    /\ called' = entry
    /\ parsed' = r
    /\ tk_' = r.pos
    /\ UNCHANGED <<toks, prog_, pc_, stack_, stack0, run, error, ovf>>

CallParseModule ==
    /\ Fresh
    /\ \E build \in Builds : Return("ParseModule", ParseModule(toks, build, tk_))

CallParseStmt ==
    /\ Fresh
    /\ Return("ParseStmt", ParseStmt(toks, tk_))

CallParseBlockStmt ==
    /\ Fresh
    /\ Return("ParseBlockStmt", ParseBlockStmt(toks, tk_))

CallParseExpr ==
    /\ Fresh
    /\ Return("ParseExpr", ParseExpr(toks, tk_))

Parse == CallParseModule \/ CallParseStmt \/ CallParseBlockStmt \/ CallParseExpr

\* The productions below the entry points, called on their own.
CallParseReturnStmt ==
    /\ Fresh
    /\ Return("ParseReturnStmt", ParseReturnStmt(toks, tk_))

CallParseWhileStmt ==
    /\ Fresh
    /\ Return("ParseWhileStmt", ParseWhileStmt(toks, tk_))

CallParseIfStmt ==
    /\ Fresh
    /\ Return("ParseIfStmt", ParseIfStmt(toks, tk_))

CallParseTermExpr ==
    /\ Fresh
    /\ Return("ParseTermExpr", ParseTermExpr(toks, tk_))

CallParseCallExpr ==
    /\ Fresh
    /\ Return("ParseCallExpr", ParseCallExpr(toks, tk_))

CallParseMulDivExpr ==
    /\ Fresh
    /\ Return("ParseMulDivExpr", ParseMulDivExpr(toks, tk_))

CallParseAddSubExpr ==
    /\ Fresh
    /\ Return("ParseAddSubExpr", ParseAddSubExpr(toks, tk_))

CallParseCompExpr ==
    /\ Fresh
    /\ Return("ParseCompExpr", ParseCompExpr(toks, tk_))

Productions ==
    \/ Parse
    \/ CallParseReturnStmt \/ CallParseWhileStmt \/ CallParseIfStmt
    \/ CallParseTermExpr \/ CallParseCallExpr \/ CallParseMulDivExpr
    \/ CallParseAddSubExpr \/ CallParseCompExpr

-----------------------------------------------------------------------------
(* The Programs and entry stacks the interpreter is run on *)

Cells(imms) == [i \in 1 .. Len(imms) |-> Imm(imms[i])]

\* One instruction followed by STOP cells; jump targets point at the last STOP.
OneOpProg(o, imms) == <<Op(o)>> \o Cells(imms) \o <<Op("STOP")>>

BinaryOps == {"ADD", "SUB", "MUL", "DIV", "MOD", "DEQ", "NEQ", "SM", "SMEQ", "GR", "GREQ"}

\* [code, need]: a single-instruction Program and the number of operands it
\* takes from the stack.
OneOpEntries ==
    {[code |-> OneOpProg(o, <<>>), need |-> 2] : o \in BinaryOps}
    \cup {[code |-> OneOpProg("PUSH_INT", <<i>>), need |-> 0] : i \in {MinInt, -1, 0, MaxInt}}
    \cup {[code |-> OneOpProg("PUSH_FUNC", <<3>>), need |-> 0],
          [code |-> OneOpProg("PUSH_PROTO", <<0>>), need |-> 0],
          [code |-> OneOpProg("POP", <<>>), need |-> 1],
          [code |-> OneOpProg("CALL", <<>>), need |-> 1],
          [code |-> OneOpProg("JUMP_FALSE", <<4>>) \o <<Op("STOP")>>, need |-> 1],
          [code |-> OneOpProg("JUMP", <<4>>) \o <<Op("STOP")>>, need |-> 0],
          [code |-> <<Op("STOP")>>, need |-> 0]}
    \cup {[code |-> OneOpProg("PEEK", <<n>>), need |-> n + 1] : n \in 0 .. 2}
    \cup {[code |-> OneOpProg("RET", <<d, n>>), need |-> d + n + 2] : d \in 0 .. 1, n \in 0 .. 1}

SampleVals(code) ==
    {IntV(i) : i \in {MinInt, -7, -1, 0, 2, 3, MaxInt}} \cup {AddrV(Len(code)), ProtoV(0)}

BaseVals == {IntV(5), AddrV(1)}
BaseStacks == UNION {[1 .. n -> BaseVals] : n \in 0 .. MaxBase}

\* f(a1, .., aN) with D locals: the caller pushes the arguments and the address
\* of f, CALLs it and STOPs; f pushes D locals, computes a1 + 1 (or the constant
\* 7 when it takes no argument) and returns it with RET(D, N).
PushInts(vals) ==
    [i \in 1 .. 2 * Len(vals) |-> IF i % 2 = 1 THEN Op("PUSH_INT") ELSE Imm(vals[i \div 2])]

CallProg(args, D) ==
    LET N == Len(args)
        f == 2 * N + 5
        value == IF N > 0
                 THEN <<Op("PEEK"), Imm(D + N), Op("PUSH_INT"), Imm(1), Op("ADD")>>
                 ELSE <<Op("PUSH_INT"), Imm(7)>>
    IN  PushInts(args) \o <<Op("PUSH_FUNC"), Imm(f), Op("CALL"), Op("STOP")>>
        \o PushInts([i \in 1 .. D |-> 0 - i]) \o value \o <<Op("RET"), Imm(D), Imm(N)>>

ArgVals == {41, -1, MaxInt}
ArgLists == UNION {[1 .. n -> ArgVals] : n \in 0 .. MaxArgs}
CallProgs == {CallProg(args, D) : args \in ArgLists, D \in 0 .. MaxLocals}

\* a <op1> b <op2> c evaluated left to right:
\* PUSH_INT a, PUSH_INT b, op1, PUSH_INT c, op2, STOP.
ExprProg(a, op1, b, op2, c) ==
    <<Op("PUSH_INT"), Imm(a), Op("PUSH_INT"), Imm(b), Op(op1),
      Op("PUSH_INT"), Imm(c), Op(op2), Op("STOP")>>

ExprVals == {8, 3, 2, 1}
ExprProgs ==
    {ExprProg(a, op1, b, op2, c) : a \in ExprVals, b \in ExprVals, c \in ExprVals,
                                   op1 \in BinaryOps, op2 \in BinaryOps}

ArithProgs == {OneOpProg("ADD", <<>>), OneOpProg("SUB", <<>>)}

\* n! by a while loop. The stack keeps n and the product acc as its two top
\* slots; each turn of the loop pushes n - 1 and acc * n above them:
\*      1: PUSH_INT n        3: PUSH_INT 1
\*      5: PEEK 1   7: PUSH_INT 1   9: GR   10: JUMP_FALSE 24
\*     12: PEEK 1  14: PUSH_INT 1  16: SUB
\*     17: PEEK 1  19: PEEK 3      21: MUL
\*     22: JUMP 5
\*     24: STOP
FactProg(n) ==
    <<Op("PUSH_INT"), Imm(n), Op("PUSH_INT"), Imm(1),
      Op("PEEK"), Imm(1), Op("PUSH_INT"), Imm(1), Op("GR"), Op("JUMP_FALSE"), Imm(24),
      Op("PEEK"), Imm(1), Op("PUSH_INT"), Imm(1), Op("SUB"),
      Op("PEEK"), Imm(1), Op("PEEK"), Imm(3), Op("MUL"),
      Op("JUMP"), Imm(5),
      Op("STOP")>>

FactArgs == 0 .. 5
FactProgs == {FactProg(n) : n \in FactArgs}

\* Interp(prog): pc_ at the first cell; Run() is entered.
Start(code, stk) ==
    /\ prog_ = code
    /\ pc_ = 1
    /\ stack_ = stk
    /\ stack0 = stk
    /\ run = "running"
    /\ error = ""
    /\ ovf = FALSE
    /\ toks = NoTokens
    /\ tk_ = 0
    /\ called = ""
    /\ parsed = NotParsed

\* A call program on any base stack.
InitCall == \E code \in CallProgs, base \in BaseStacks : Start(code, base)

\* A factorial program on any base stack.
InitFact == \E code \in FactProgs, base \in BaseStacks : Start(code, base)

InitVM ==
    \/ \E e \in OneOpEntries, base \in BaseStacks :
          \E operands \in [1 .. e.need -> SampleVals(e.code)] :
              Start(e.code, base \o operands)
    \/ \E code \in ArithProgs, lhs \in Int64, rhs \in Int64 :
          Start(code, <<IntV(lhs), IntV(rhs)>>)
    \/ InitCall
    \/ \E code \in ExprProgs : Start(code, <<>>)

Init == InitVM \/ InitParser

Next == Step \/ Parse

\* The toolchain: the parser on a token source, or the interpreter on a Program.
Spec == Init /\ [][Next]_vars

\* The interpreter alone.
InterpSpec == InitVM /\ [][Step]_vars

\* The parser alone.
ParserSpec == InitParser /\ [][Parse]_vars

\* Every production of the parser on its own.
ProductionSpec == InitParser /\ [][Productions]_vars

\* The opcodes the call programs are made of.
CallStep == PUSH_INT \/ PUSH_FUNC \/ PEEK \/ ADD \/ CALL \/ RET \/ STOP

\* The interpreter on the call programs; the loop of Run() keeps executing
\* opcodes until STOP or an exception leaves it.
CallSpec == InitCall /\ [][CallStep]_vars /\ WF_vars(CallStep)

\* The opcodes the factorial programs are made of.
FactStep == PUSH_INT \/ PEEK \/ GR \/ JUMP_FALSE \/ SUB \/ MUL \/ JUMP \/ STOP

\* The interpreter on the factorial programs.
FactSpec == InitFact /\ [][FactStep]_vars /\ WF_vars(FactStep)

-----------------------------------------------------------------------------
(* Calling convention *)

\* The offset of the (only) CALL opcode of a call program, the number of
\* arguments its caller pushes, and the value its function returns.
CallSite(code) == CHOOSE i \in DOMAIN code : code[i].op = "CALL"
NArgsOf(code) == (CallSite(code) - 3) \div 2
ReturnValue(code) == IF NArgsOf(code) > 0 THEN Wrap(code[2].v + 1) ELSE 7

CallStarted == prog_ \in CallProgs /\ run = "running" /\ pc_ = 1
CallReturned ==
    /\ prog_ \in CallProgs
    /\ pc_ = CallSite(prog_) + 1
    /\ stack_ = stack0 \o <<IntV(ReturnValue(prog_))>>

\* C1: a caller that pushes the N arguments and the address of a function
\* ending in RET(D, N) and executes CALL eventually is back at the offset
\* directly after the CALL opcode, with the stack it started from plus the
\* return value on top (for f(x) = x + 1 and 41: one slot taller, 42 on top).
C1_RoundTrip == [](CallStarted => <>CallReturned)

C1_Witness ==
    /\ prog_ = CallProg(<<41>>, 0)
    /\ run = "running"
    /\ pc_ = 6
    /\ Len(stack_) = Len(stack0) + 1
    /\ Top(stack_) = IntV(42)

\* A step that executes RET to completion.
RetStep == Fetch("RET") /\ run' = "running"

\* C2 as claimed: the height after RET(D, N) on a stack of height H is
\* H - (D + N) + 1.
C2_Claimed ==
    [][RetStep => Len(stack_') = Len(stack_) - (Operand(1) + Operand(2)) + 1]_vars

\* C2 as amended: the height after RET(D, N) on a stack of height H (return
\* value on top, D callee values, the return address, N arguments) is
\* H - (D + N) - 1: RET removes the return address as well, and the return
\* value it pushes back was already counted in H.
C2_RetHeight ==
    [][RetStep => Len(stack_') = Len(stack_) - (Operand(1) + Operand(2)) - 1]_vars

C2_Witness ==
    /\ prog_ = OneOpProg("RET", <<1, 1>>)
    /\ run = "running"
    /\ pc_ = Len(prog_)
    /\ Len(stack0) = 5
    /\ Len(stack_) = 2

-----------------------------------------------------------------------------
(* Binary opcodes *)

ComparisonOps == {"DEQ", "NEQ", "SM", "SMEQ", "GR", "GREQ"}

\* lhs <op> rhs as a mathematical integer.
BinaryValue(o, lhs, rhs) ==
    CASE o = "ADD" -> lhs + rhs
      [] o = "SUB" -> lhs - rhs
      [] o = "MUL" -> lhs * rhs
      [] o = "DIV" -> TruncDiv(lhs, rhs)
      [] o = "MOD" -> TruncMod(lhs, rhs)
      [] o = "DEQ" -> IF lhs = rhs THEN 1 ELSE 0
      [] o = "NEQ" -> IF lhs # rhs THEN 1 ELSE 0
      [] o = "SM" -> IF lhs < rhs THEN 1 ELSE 0
      [] o = "SMEQ" -> IF lhs <= rhs THEN 1 ELSE 0
      [] o = "GR" -> IF lhs > rhs THEN 1 ELSE 0
      [] o = "GREQ" -> IF lhs >= rhs THEN 1 ELSE 0

\* lhs <op> rhs is defined in int64_t arithmetic.
BinaryDefined(o, lhs, rhs) ==
    /\ o \in {"DIV", "MOD"} => rhs # 0 /\ TruncDiv(lhs, rhs) \in Int64
    /\ o \notin {"DIV", "MOD"} => BinaryValue(o, lhs, rhs) \in Int64

\* C8: a binary opcode on two Integers, lhs pushed before rhs, replaces them
\* by lhs <op> rhs (wherever that is defined), a comparison by exactly 1 or 0;
\* whenever a binary opcode completes, the stack is one shorter and the slots
\* below the two operands are unchanged.
C8_BinaryOperandOrder ==
    [][\A o \in BinaryOps :
          Fetch(o) /\ Len(stack_) >= 2 =>
            LET rhs == stack_[Len(stack_)]
                lhs == stack_[Len(stack_) - 1]
            IN  /\ (lhs.Kind = "INT" /\ rhs.Kind = "INT" /\ BinaryDefined(o, lhs.Val, rhs.Val))
                     => /\ run' = "running"
                        /\ stack_' = Append(PopN(stack_, 2), IntV(BinaryValue(o, lhs.Val, rhs.Val)))
                /\ run' = "running"
                     => /\ Len(stack_') = Len(stack_) - 1
                        /\ PopN(stack_', 1) = PopN(stack_, 2)
                        /\ o \in ComparisonOps => Top(stack_') \in {IntV(0), IntV(1)}]_vars

C8_Witness ==
    /\ prog_ = OneOpProg("SUB", <<>>)
    /\ stack0 = <<IntV(5), IntV(2), IntV(3)>>
    /\ stack_ = <<IntV(5), IntV(-1)>>
    /\ pc_ = 2

\* ADD was executed on the two Integers Run() was entered with.
AddExecuted ==
    /\ prog_ = OneOpProg("ADD", <<>>)
    /\ Len(stack0) = 2
    /\ stack0[1].Kind = "INT"
    /\ stack0[2].Kind = "INT"
    /\ pc_ >= 2

\* C9: the overflow test evaluated by ADD holds exactly when the mathematical
\* sum of the operands is outside the signed range.
C9_AddOverflowExact ==
    AddExecuted => (ovf <=> (stack0[1].Val + stack0[2].Val) \notin Int64)

-----------------------------------------------------------------------------
(* CALL *)

\* C10: CALL on an Integer ends execution with the RuntimeError "cannot call
\* integer", with pc_ left directly after the CALL opcode, and nothing is
\* executed once a RuntimeError has left Run(); CALL on an Address a pushes the
\* offset directly after the CALL opcode as an Address and sets pc_ to a.
C10_CallNonCallable ==
    [][/\ run # "error"
       /\ (Fetch("CALL") /\ Len(stack_) >= 1 /\ Top(stack_).Kind = "INT")
            => /\ run' = "error"
               /\ error' = "cannot call integer"
               /\ pc_' = pc_ + 1
       /\ (Fetch("CALL") /\ Len(stack_) >= 1 /\ Top(stack_).Kind = "ADDR")
            => /\ run' = "running"
               /\ stack_' = Append(PopN(stack_, 1), AddrV(pc_ + 1))
               /\ pc_' = Top(stack_).Val]_vars

C10_Witness ==
    /\ prog_ = OneOpProg("CALL", <<>>)
    /\ run = "error"
    /\ error = "cannot call integer"
    /\ pc_ = 2

-----------------------------------------------------------------------------
(* Blocks *)

\* { a ; b c }
AB_C ==
    <<Tok("LBRACE"), IdentTok("a"), Tok("SEMI"), IdentTok("b"), IdentTok("c"),
      Tok("RBRACE"), End>>

BlockParsed == called = "ParseBlockStmt" /\ toks \in BlockInputs

\* C3 as claimed: ParseBlockStmt on { a ; b c } returns the block [a, b]; and
\* a block that stopped collecting still returns what it collected.
C3_Claimed ==
    (BlockParsed /\ toks = AB_C) =>
        /\ parsed.st = "ok"
        /\ parsed.node = BlockStmt(<<ExprStmt(RefExpr("a")), ExprStmt(RefExpr("b"))>>)

\* The tokens after the LBRACE start with n identifiers separated by SEMI.
Separated(ts, n) ==
    /\ Len(ts) >= 2 * n + 1
    /\ \A i \in 1 .. n : /\ ts[2 * i].kind = "IDENT"
                         /\ i < n => ts[2 * i + 1].kind = "SEMI"

Collected(ts, n) == [i \in 1 .. n |-> ExprStmt(RefExpr(ts[2 * i].str))]

\* C3 as amended: a block stops collecting at the first statement not followed
\* by SEMI, and then requires RBRACE: on RBRACE it returns the statements
\* collected so far, on any other token it raises ParserError at that token
\* (unexpected X, expecting RBRACE). { a ; b c } raises at c.
C3_BlockStop ==
    BlockParsed =>
        /\ toks = AB_C => parsed = Error(toks, 5, "RBRACE")
        /\ \A n \in 1 .. Len(toks) :
              (Separated(toks, n) /\ toks[2 * n + 1].kind # "SEMI") =>
                 IF toks[2 * n + 1].kind = "RBRACE"
                 THEN parsed = Ok(BlockStmt(Collected(toks, n)), 2 * n + 2)
                 ELSE parsed = Error(toks, 2 * n + 1, "RBRACE")

C3_Witness ==
    /\ BlockParsed
    /\ toks = AB_C
    /\ parsed.st = "error"
    /\ parsed.unexpected = "IDENT"
    /\ tk_ = 5

-----------------------------------------------------------------------------
(* ParseModule *)

\* C4: ParseModule returns a Module or raises a ParserError; nothing else.
C4_ModuleOrParseError ==
    called = "ParseModule" =>
        \/ parsed.st = "ok" /\ parsed.node.k = "Module"
        \/ parsed.st = "error"

-----------------------------------------------------------------------------
(* Expressions *)

\* The precedence level of an operator token.
Level(tk) ==
    IF tk.kind \in {"MULTIPLY", "DIVIDE", "MODULO"} THEN 3
    ELSE IF tk.kind \in {"PLUS", "MINUS"} THEN 2
    ELSE 1

OpKind ==
    [MULTIPLY |-> "MUL", DIVIDE |-> "DIV", MODULO |-> "MOD", PLUS |-> "ADD",
     MINUS |-> "SUB", DOUBLE_EQUAL |-> "DEQ", NOT_EQUAL |-> "NEQ",
     SMALLER |-> "SM", SMALLER_OR_EQUAL |-> "SMEQ", GREATER |-> "GR",
     GREATER_OR_EQUAL |-> "GREQ"]

Leaf(tk) == IF tk.kind = "IDENT" THEN RefExpr(tk.str) ELSE IntExpr(tk.int)

\* (t1 o1 t2) o2 t3 and t1 o1 (t2 o2 t3) for the token source ts.
LeftNested(ts) ==
    BinaryExpr(OpKind[ts[4].kind],
               BinaryExpr(OpKind[ts[2].kind], Leaf(ts[1]), Leaf(ts[3])), Leaf(ts[5]))
RightNested(ts) ==
    BinaryExpr(OpKind[ts[2].kind], Leaf(ts[1]),
               BinaryExpr(OpKind[ts[4].kind], Leaf(ts[3]), Leaf(ts[5])))

ExprParsed == called = "ParseExpr" /\ toks \in ExprInputs

\* C5: of two operators of different levels the one of the higher level
\* (* / % over + - over the comparisons) takes the operand between them:
\* a + b * c is ADD(a, MUL(b, c)), a * b + c is ADD(MUL(a, b), c), and
\* a < b + c is SM(a, ADD(b, c)).
C5_Precedence ==
    (ExprParsed /\ Level(toks[2]) # Level(toks[4])) =>
        parsed = Ok(IF Level(toks[4]) > Level(toks[2]) THEN RightNested(toks)
                    ELSE LeftNested(toks), 6)

C5_Witness ==
    /\ ExprParsed
    /\ toks = <<IntTok(1), Tok("PLUS"), IntTok(2), Tok("MULTIPLY"), IntTok(3), End>>
    /\ parsed.st = "ok"
    /\ parsed.node = BinaryExpr("ADD", IntExpr(1), BinaryExpr("MUL", IntExpr(2), IntExpr(3)))

\* C6: two additive or two multiplicative operators in a row nest to the
\* left, 8 - 3 - 2 is SUB(SUB(8, 3), 2); and PUSH_INT 8, PUSH_INT 3, SUB,
\* PUSH_INT 2, SUB stops with Integer(3) on the stack.
C6_LeftAssoc ==
    /\ (ExprParsed /\ Level(toks[2]) = Level(toks[4]) /\ Level(toks[2]) >= 2) =>
          parsed = Ok(LeftNested(toks), 6)
    /\ (prog_ = ExprProg(8, "SUB", 3, "SUB", 2) /\ run = "stopped") =>
          stack_ = <<IntV(3)>>

C6_Witness ==
    /\ ExprParsed
    /\ toks = <<IntTok(8), Tok("MINUS"), IntTok(3), Tok("MINUS"), IntTok(2), End>>
    /\ parsed.st = "ok"
    /\ parsed.node = BinaryExpr("SUB", BinaryExpr("SUB", IntExpr(8), IntExpr(3)), IntExpr(2))

\* C7: two comparison operators in a row nest to the left, each with the kind
\* of its own token, 1 < 2 < 1 is SM(SM(1, 2), 1); and PUSH_INT 1, PUSH_INT 2,
\* SM, PUSH_INT 1, SM compares the 1 of the inner comparison with 1 and stops
\* with Integer(0) on the stack.
C7_CompChain ==
    /\ (ExprParsed /\ Level(toks[2]) = 1 /\ Level(toks[4]) = 1) =>
          parsed = Ok(LeftNested(toks), 6)
    /\ (ExprParsed /\ toks = <<IntTok(1), Tok("SMALLER"), IntTok(2), Tok("SMALLER"), IntTok(1), End>>) =>
          parsed.node = BinaryExpr("SM", BinaryExpr("SM", IntExpr(1), IntExpr(2)), IntExpr(1))
    /\ (prog_ = ExprProg(1, "SM", 2, "SM", 1) /\ pc_ = 6 /\ run = "running") =>
          stack_ = <<IntV(1)>>
    /\ (prog_ = ExprProg(1, "SM", 2, "SM", 1) /\ run = "stopped") =>
          stack_ = <<IntV(0)>>

C7_Witness ==
    /\ prog_ = ExprProg(1, "SM", 2, "SM", 1)
    /\ run = "stopped"
    /\ stack_ = <<IntV(0)>>

-----------------------------------------------------------------------------
(* Factorial *)

RECURSIVE Factorial(_)
Factorial(n) == IF n <= 1 THEN 1 ELSE n * Factorial(n - 1)

FactStarted == prog_ \in FactProgs /\ run = "running" /\ pc_ = 1
FactStopped ==
    /\ run = "stopped"
    /\ Len(stack_) > Len(stack0)
    /\ Top(stack_) = IntV(Factorial(prog_[2].v))

\* C11: the factorial program eventually reaches STOP with n! on top of the
\* stack; for n = 5 that is Integer(120).
C11_Factorial ==
    /\ [](FactStarted => <>FactStopped)
    /\ [](prog_ = FactProg(5) /\ run = "stopped" => Top(stack_) = IntV(120))

C11_Witness ==
    /\ prog_ = FactProg(5)
    /\ run = "stopped"
    /\ pc_ = 25
    /\ Top(stack_) = IntV(120)

-----------------------------------------------------------------------------
(* Overflow of ADD and SUB *)

\* SUB was executed, up to its overflow test, on the two Integers Run() was
\* entered with.
SubExecuted ==
    /\ prog_ = OneOpProg("SUB", <<>>)
    /\ Len(stack0) = 2
    /\ stack0[1].Kind = "INT"
    /\ stack0[2].Kind = "INT"
    /\ pc_ >= 2
    /\ run # "trap"

\* C12: the overflow test evaluated by SUB holds exactly when the mathematical
\* difference of the operands is outside the signed range.
C12_SubOverflowExact ==
    SubExecuted => (ovf <=> (stack0[1].Val - stack0[2].Val) \notin Int64)

\* ADD or SUB is about to execute on two Integers.
AddOrSub == (Fetch("ADD") \/ Fetch("SUB")) /\ Len(stack_) >= 2 /\ BothInt

\* The sum or difference of the operands modulo 2^w, as a signed integer.
Wrapped ==
    IF Fetch("ADD") THEN Wrap(Lhs.Val + Rhs.Val) ELSE Wrap(Lhs.Val - Rhs.Val)

\* The opcode pushed the wrapped result and the loop goes on.
PushedWrapped ==
    /\ run' = "running"
    /\ error' = error
    /\ stack_' = Append(PopN(stack_, 2), IntV(Wrapped))
    /\ pc_' = pc_ + 1

\* C13: when the overflow test of ADD or SUB holds, no RuntimeError is raised:
\* the wrapped result is pushed and execution continues with the next opcode,
\* as it does when the test does not hold and the opcode completes.
C13_OverflowNotFatal ==
    [][AddOrSub => /\ ovf' => PushedWrapped
                   /\ (~ovf' /\ run' # "trap") => PushedWrapped]_vars

C13_Witness ==
    /\ prog_ = OneOpProg("ADD", <<>>)
    /\ stack0 = <<IntV(MaxInt), IntV(1)>>
    /\ ovf
    /\ run = "stopped"
    /\ error = ""
    /\ stack_ = <<IntV(MinInt)>>

-----------------------------------------------------------------------------
(* Frames *)

\* RET(depth, nargs) is about to execute on a stack that holds its frame.
RetFrame == Fetch("RET") /\ Len(stack_) >= Operand(1) + Operand(2) + 2

\* C14: RET(depth, nargs) on base ++ args ++ [r] ++ locals ++ [v] takes as the
\* return address the value depth slots below v; when that value is an
\* Address r it sets pc_ to r and leaves base ++ [v], with base untouched and
\* v the value that was on top; otherwise it raises and does not return.
C14_RetFrame ==
    [][RetFrame =>
         LET depth == Operand(1)
             nargs == Operand(2)
             H == Len(stack_)
             r == stack_[H - 1 - depth]
             base == SubSeq(stack_, 1, H - depth - nargs - 2)
         IN  IF r.Kind = "ADDR"
             THEN /\ run' = "running"
                  /\ pc_' = r.Val
                  /\ stack_' = base \o <<stack_[H]>>
             ELSE run' = "error"]_vars

C14_Witness ==
    /\ prog_ = OneOpProg("RET", <<1, 1>>)
    /\ stack0 = <<IntV(5), IntV(2), AddrV(4), IntV(3), IntV(-7)>>
    /\ stack_ = <<IntV(5), IntV(-7)>>
    /\ pc_ = 4
    /\ run = "running"

\* C15: JUMP_FALSE(addr) pops one value and leaves the rest of the stack;
\* on Integer(0) pc_ becomes addr, on a non-zero Integer pc_ becomes the offset
\* directly after the operand. JUMP(addr) sets pc_ to addr and leaves the
\* stack.
C15_Jumps ==
    [][/\ (Fetch("JUMP_FALSE") /\ Len(stack_) >= 1) =>
            /\ stack_' = PopN(stack_, 1)
            /\ run' = "running"
            /\ Top(stack_) = IntV(0) => pc_' = Operand(1)
            /\ (Top(stack_).Kind = "INT" /\ Top(stack_).Val # 0) => pc_' = pc_ + 2
       /\ Fetch("JUMP") => /\ pc_' = Operand(1)
                           /\ stack_' = stack_
                           /\ run' = "running"]_vars

C15_Witness ==
    /\ prog_ = OneOpProg("JUMP_FALSE", <<4>>) \o <<Op("STOP")>>
    /\ stack0 = <<IntV(5), IntV(0)>>
    /\ stack_ = <<IntV(5)>>
    /\ pc_ = 4
    /\ run = "running"

\* C16: PEEK(n) with n less than the stack height pushes a copy of the value
\* n slots below the top (n = 0: the top itself); the stack is one taller and
\* every slot it had is unchanged.
C16_Peek ==
    [][(Fetch("PEEK") /\ Operand(1) < Len(stack_)) =>
          /\ run' = "running"
          /\ Len(stack_') = Len(stack_) + 1
          /\ Top(stack_') = stack_[Len(stack_) - Operand(1)]
          /\ PopN(stack_', 1) = stack_
          /\ pc_' = pc_ + 2]_vars

C16_Witness ==
    /\ prog_ = OneOpProg("PEEK", <<1>>)
    /\ stack0 = <<IntV(2), IntV(3)>>
    /\ stack_ = <<IntV(2), IntV(3), IntV(2)>>
    /\ pc_ = 3

-----------------------------------------------------------------------------
(* Lookahead *)

\* What the production named entry does on the token source ts, under some
\* build.
Outcomes(entry, ts) ==
    CASE entry = "ParseModule" -> {ParseModule(ts, build, 1) : build \in Builds}
      [] entry = "ParseStmt" -> {ParseStmt(ts, 1)}
      [] entry = "ParseBlockStmt" -> {ParseBlockStmt(ts, 1)}
      [] entry = "ParseExpr" -> {ParseExpr(ts, 1)}
      [] entry = "ParseReturnStmt" -> {ParseReturnStmt(ts, 1)}
      [] entry = "ParseWhileStmt" -> {ParseWhileStmt(ts, 1)}
      [] entry = "ParseIfStmt" -> {ParseIfStmt(ts, 1)}
      [] entry = "ParseTermExpr" -> {ParseTermExpr(ts, 1)}
      [] entry = "ParseCallExpr" -> {ParseCallExpr(ts, 1)}
      [] entry = "ParseMulDivExpr" -> {ParseMulDivExpr(ts, 1)}
      [] entry = "ParseAddSubExpr" -> {ParseAddSubExpr(ts, 1)}
      [] entry = "ParseCompExpr" -> {ParseCompExpr(ts, 1)}

\* The first m tokens of ts alone, ended by END.
Prefix(ts, m) == SubSeq(ts, 1, m) \o <<End>>

\* The first m tokens of ts are a whole construct of the production with the
\* tree node.
Builds_(entry, ts, m, node) ==
    \E r \in Outcomes(entry, Prefix(ts, m)) : r.st = "ok" /\ r.node = node

\* The number of tokens of the construct a production returned: the fewest
\* leading tokens that make up the tree it returned.
ConstructLen(entry, ts, node) ==
    CHOOSE m \in 0 .. Len(ts) - 1 :
        /\ Builds_(entry, ts, m, node)
        /\ \A k \in 0 .. m - 1 : ~Builds_(entry, ts, k, node)

Returned == called # "" /\ parsed.st = "ok"

\* C17: a production that returns leaves the current token exactly one past
\* the last token of the construct it returned: the tokens before the current
\* one are the construct, and no fewer tokens are.
C17_Lookahead ==
    Returned =>
        /\ tk_ = parsed.pos
        /\ tk_ >= 1
        /\ Builds_(called, toks, tk_ - 1, parsed.node)
        /\ tk_ = ConstructLen(called, toks, parsed.node) + 1

C17_Witness ==
    /\ called = "ParseIfStmt"
    /\ toks = <<Tok("IF"), Tok("LPAREN"), IdentTok("a"), Tok("RPAREN"), Tok("LBRACE"),
                Tok("RBRACE"), IdentTok("b"), End>>
    /\ parsed.st = "ok"
    /\ parsed.node = IfStmt(RefExpr("a"), BlockStmt(<<>>), NullStmt)
    /\ toks[tk_] = IdentTok("b")

-----------------------------------------------------------------------------
(* Calls and separated lists *)

Refs(names) == [i \in 1 .. Len(names) |-> RefExpr(names[i])]

\* The calls of chain applied to callee, innermost first.
RECURSIVE Calls(_, _)
Calls(callee, chain) ==
    IF chain = <<>> THEN callee
    ELSE Calls(CallExpr(callee, Refs(Head(chain).names)), Tail(chain))

NoTrailing(chain) == \A i \in 1 .. Len(chain) : ~chain[i].trailing

\* C18: a term followed by k argument lists is k left-nested CallExprs, each
\* with its arguments in source order (f ( a ) ( b , c ) is
\* CallExpr(CallExpr(f, [a]), [b, c]), f ( ) is CallExpr(f, [])), and a call
\* binds tighter than a binary operator: f ( .. ) * g ( b ) is
\* MUL(calls of f, CallExpr(g, [b])).
C18_CallChain ==
    (called \in {"ParseCallExpr", "ParseExpr"} /\ toks \in CallInputs) =>
    \A chain \in Chains :
        NoTrailing(chain) =>
            /\ (called = "ParseCallExpr" /\ toks = CallInput(chain, FALSE)) =>
                  parsed = Ok(Calls(RefExpr("f"), chain), Len(toks))
            /\ (called = "ParseCallExpr" /\ toks = CallInput(chain, TRUE)) =>
                  parsed = Ok(Calls(RefExpr("f"), chain), Len(toks) - Len(TimesCall))
            /\ (called = "ParseExpr" /\ toks = CallInput(chain, TRUE)) =>
                  parsed = Ok(BinaryExpr("MUL", Calls(RefExpr("f"), chain),
                                         CallExpr(RefExpr("g"), <<RefExpr("b")>>)),
                              Len(toks))

C18_Witness ==
    /\ called = "ParseCallExpr"
    /\ toks = <<IdentTok("f"), Tok("LPAREN"), IdentTok("a"), Tok("RPAREN"), Tok("LPAREN"),
                IdentTok("b"), Tok("COMMA"), IdentTok("c"), Tok("RPAREN"), End>>
    /\ parsed.st = "ok"
    /\ parsed.node = CallExpr(CallExpr(RefExpr("f"), <<RefExpr("a")>>),
                              <<RefExpr("b"), RefExpr("c")>>)


NonEmptyLists == {l \in Lists : l.names # <<>>}

\* { x ; y } or { x ; y ; }
BlockInput(l) ==
    <<Tok("LBRACE")>>
    \o Written([i \in 1 .. Len(l.names) |-> <<IdentTok(l.names[i])>>], Tok("SEMI"), l.trailing)
    \o <<Tok("RBRACE"), End>>

Typed(names) == [i \in 1 .. Len(names) |-> <<names[i], "int">>]

EmptyBody == <<Tok("COLON"), IdentTok("int"), Tok("LBRACE"), Tok("RBRACE")>>

\* C19: a non-empty argument list, parameter list or block body parses to the
\* same elements with and without a separator after its last element:
\* f ( a , ) is CallExpr(f, [a]), func f ( a : int , ) : int { } has the one
\* parameter a, and { a ; } is the block [a].
C19_TrailingSeparator ==
    \A l \in NonEmptyLists :
        /\ (called = "ParseExpr" /\ toks = CallInput(<<l>>, FALSE)) =>
              parsed = Ok(CallExpr(RefExpr("f"), Refs(l.names)), Len(toks))
        /\ (called = "ParseModule" /\ toks = FuncInput(l, EmptyBody)) =>
              parsed = Ok(Module(<<FuncDecl("f", Typed(l.names), "int", BlockStmt(<<>>))>>),
                          Len(toks))
        /\ (called = "ParseBlockStmt" /\ toks = BlockInput(l)) =>
              parsed = Ok(BlockStmt([i \in 1 .. Len(l.names) |-> ExprStmt(RefExpr(l.names[i]))]),
                          Len(toks))

C19_Witness ==
    /\ called = "ParseExpr"
    /\ toks = <<IdentTok("f"), Tok("LPAREN"), IdentTok("a"), Tok("COMMA"), Tok("RPAREN"), End>>
    /\ parsed.st = "ok"
    /\ parsed.node = CallExpr(RefExpr("f"), <<RefExpr("a")>>)

-----------------------------------------------------------------------------
(* ParseModule and the end of the input *)

\* The tokens ts (ended by END) are the items of body one after the other,
\* each on a span of its own, with nothing between or after them.
RECURSIVE Covers(_, _)
Covers(ts, body) ==
    IF body = <<>> THEN ts = <<End>>
    ELSE \E m \in 1 .. Len(ts) - 1 :
            /\ \E build \in Builds :
                  ParseModule(Prefix(ts, m), build, 1) = Ok(Module(<<Head(body)>>), m + 1)
            /\ Covers(SubSeq(ts, m + 1, Len(ts)), Tail(body))

\* Tokens that neither start a top-level item nor continue a complete one.
Stray == {"SEMI", "RPAREN", "RBRACE", "COLON", "COMMA", "STRING"}

\* C20: ParseModule returns a Module only with the current token at END; its
\* items then are the input cut into adjacent spans in source order. Where
\* complete items are followed by a token that cannot start an item (a ; b)
\* it raises ParserError at that token and returns no Module for the prefix.
C20_WholeInput ==
    called = "ParseModule" =>
        /\ parsed.st = "ok" =>
              /\ parsed.node.k = "Module"
              /\ toks[tk_].kind = "END"
              /\ tk_ = Len(toks)
              /\ Covers(toks, parsed.node.body)
        /\ \A m \in 0 .. Len(toks) - 2 :
              (/\ toks[m + 1].kind \in Stray
               /\ \E build \in Builds : ParseModule(Prefix(toks, m), build, 1).st = "ok"
               /\ \A build \in Builds :
                     ParseModule(Prefix(toks, m), build, 1).st \in {"ok", "error"})
              => parsed = Error(toks, m + 1, "term")

C20_Witness ==
    /\ called = "ParseModule"
    /\ toks = <<IdentTok("a"), Tok("SEMI"), IdentTok("b"), End>>
    /\ parsed.st = "error"
    /\ parsed.unexpected = "SEMI"
    /\ tk_ = 2


-----------------------------------------------------------------------------
(* Dangling else *)

\* The number of leading pairs else y of the tokens s.
RECURSIVE ElsePairs(_)
ElsePairs(s) ==
    IF Len(s) >= 2 /\ s[1] = Tok("ELSE") /\ s[2] = IdentTok("y")
    THEN 1 + ElsePairs(SubSeq(s, 3, Len(s)))
    ELSE 0

Min(a, b) == IF a < b THEN a ELSE b

\* The ifs i .. k nested, the innermost j of them with the else branch y.
RECURSIVE IfTree(_, _, _)
IfTree(i, k, j) ==
    IfStmt(RefExpr(CondNames[i]),
           IF i = k THEN ExprStmt(RefExpr("x")) ELSE IfTree(i + 1, k, j),
           IF i > k - j THEN ExprStmt(RefExpr("y")) ELSE NullStmt)

\* The tokens after k nested ifs and their then-statement x.
After(ts, k) == SubSeq(ts, 4 * k + 2, Len(ts) - 1)

\* C21: an if takes an else branch only when ELSE is the token right after
\* its then-statement, the innermost if first: of k nested ifs followed by j
\* pairs else y the innermost j get the else branch (if ( a ) if ( b ) x
\* else y is IfStmt(a, IfStmt(b, x, y), no else)); with no ELSE right after x
\* no if gets one. In a block, { if ( a ) x ; else y } raises ParserError at
\* else.
C21_DanglingElse ==
    \A k \in 1 .. MaxIfs :
        /\ (/\ called = "ParseStmt"
            /\ toks \in IfInputs
            /\ Len(toks) >= 4 * k + 2
            /\ SubSeq(toks, 1, 4 * k + 1) = NestedIfs(k)) =>
              LET rest == After(toks, k)
                  j == Min(ElsePairs(rest), k)
              IN  (j = k \/ Len(rest) = 2 * j \/ rest[2 * j + 1] # Tok("ELSE")) =>
                      parsed = Ok(IfTree(1, k, j), 4 * k + 2 + 2 * j)
        /\ (/\ called = "ParseBlockStmt"
            /\ toks = <<Tok("LBRACE")>> \o NestedIfs(k)
                      \o <<Tok("SEMI"), Tok("ELSE"), IdentTok("y"), Tok("RBRACE"), End>>) =>
              parsed = Error(toks, 4 * k + 4, "term")

C21_Witness ==
    /\ called = "ParseStmt"
    /\ toks = NestedIfs(2) \o <<Tok("ELSE"), IdentTok("y"), End>>
    /\ parsed.st = "ok"
    /\ parsed.node = IfStmt(RefExpr("a"),
                            IfStmt(RefExpr("b"), ExprStmt(RefExpr("x")), ExprStmt(RefExpr("y"))),
                            NullStmt)
=============================================================================
